---- MODULE Spec2Model ----
(***************************************************************************)
(* Model of src/src/excel_mcp/server.py: the path resolver, the tool       *)
(* dispatch layer, the transport bootstrap and the auxiliary per-user file *)
(* endpoints of the streamable-HTTP application.                           *)
(*                                                                         *)
(* A Python string is a sequence of lexical tokens: the separator "/",     *)
(* the dot "." and words (runs of characters holding neither).  os.path    *)
(* functions are computed on these sequences the way posixpath computes    *)
(* them on characters.  The filesystem is a set of directory nodes and a   *)
(* map from file nodes to contents; a node is the sequence of its path     *)
(* components from the filesystem root.                                    *)
(***************************************************************************)
EXTENDS Integers, Sequences, FiniteSets, TLC

VARIABLES EXCEL_FILES_PATH, phase, mode, environ, dirs, files, last,
          log, exit, writers, validated

vars == <<EXCEL_FILES_PATH, phase, mode, environ, dirs, files, last,
          log, exit, writers, validated>>

(* ---------------------------------------------------------------------- *)
(* Bounds                                                                  *)
(* ---------------------------------------------------------------------- *)
\* the largest number of regular files the disk holds
MaxFiles == 2
\* the largest upload size, in bytes
MaxSize == 2

(* ---------------------------------------------------------------------- *)
(* Strings                                                                 *)
(* ---------------------------------------------------------------------- *)
\* Python's None, where a string is expected
None == <<"<None>">>
SEP == "/"
EXTSEP == "."
EmptyStr == <<>>

\* the strings the model feeds to the program
S_r == <<"r">>
S_r_q_xlsx == <<"r", "/", "q", ".", "xlsx">>
S_up_q_xlsx == <<".", ".", "/", "q", ".", "xlsx">>
S_a_xlsx == <<"a", ".", "xlsx">>
S_b_XLSX == <<"b", ".", "XLSX">>
S_n_txt == <<"n", ".", "txt">>
S_up_a_xlsx == <<".", ".", "/", "a", ".", "xlsx">>
S_up_u2_a_xlsx == <<".", ".", "/", "u2", "/", "a", ".", "xlsx">>
S_u1_d_a_xlsx == <<"u1", "/", "d", "/", "a", ".", "xlsx">>
S_abs_x_xlsx == <<"/", "x", ".", "xlsx">>
S_abs_data == <<"/", "data">>
S_default_root == <<".", "/", "excel_files">>

\* str.startswith / str.endswith for a one-token argument
StartsWith(s, t) == Len(s) > 0 /\ s[1] = t
EndsWith(s, t) == Len(s) > 0 /\ s[Len(s)] = t

\* str.rfind(t) + 1: the 1-based position of the last t in s, 0 when absent
RFind(s, t) ==
    LET hits == {i \in 1..Len(s) : s[i] = t}
    IN IF hits = {} THEN 0 ELSE CHOOSE i \in hits : \A j \in hits : j <= i

\* str.rstrip('/')
RECURSIVE RStripSep(_)
RStripSep(s) == IF EndsWith(s, SEP) THEN RStripSep(SubSeq(s, 1, Len(s) - 1)) ELSE s

\* str.lower() on the words of the model
LowerTok(t) ==
    CASE t = "XLSX" -> "xlsx"
      [] t = "XLS" -> "xls"
      [] t = "XLSM" -> "xlsm"
      [] t = "TXT" -> "txt"
      [] OTHER -> t
Lower(s) == [i \in 1..Len(s) |-> LowerTok(s[i])]

(* ---------------------------------------------------------------------- *)
(* os.path                                                                 *)
(* ---------------------------------------------------------------------- *)
\* os.path.isabs
isabs(s) == StartsWith(s, SEP)

\* os.path.join(a, b)
join(a, b) ==
    IF StartsWith(b, SEP) THEN b
    ELSE IF a = EmptyStr \/ EndsWith(a, SEP) THEN a \o b
    ELSE a \o <<SEP>> \o b

\* os.path.join(a, b, c)
join3(a, b, c) == join(join(a, b), c)

\* os.path.dirname
dirname(p) ==
    LET i == RFind(p, SEP)
        head == SubSeq(p, 1, i)
    IN IF head # EmptyStr /\ (\E k \in 1..Len(head) : head[k] # SEP)
       THEN RStripSep(head) ELSE head

\* os.path.splitext(p)[1]
splitext_ext(p) ==
    LET sepIndex == RFind(p, SEP)
        dotIndex == RFind(p, EXTSEP)
    IN IF dotIndex > sepIndex
          /\ \E k \in (sepIndex + 1)..(dotIndex - 1) : p[k] # EXTSEP
       THEN SubSeq(p, dotIndex, Len(p)) ELSE EmptyStr

\* str.split('/'): the components of a path, empty ones included
RECURSIVE Components(_)
Components(p) ==
    LET i == RFind(p, SEP)
    IN IF i = 0 THEN <<p>>
       ELSE Append(Components(SubSeq(p, 1, i - 1)), SubSeq(p, i + 1, Len(p)))

(* ---------------------------------------------------------------------- *)
(* The filesystem                                                          *)
(* ---------------------------------------------------------------------- *)
RootNode == <<>>
\* the working directory of the server process
CwdNode == <<<<"srv">>>>
NoNode == <<<<"?">>>>

CURDIR == <<".">>
PARDIR == <<".", ".">>

Parent(n) == IF n = RootNode THEN RootNode ELSE SubSeq(n, 1, Len(n) - 1)

StartNode(p) == IF isabs(p) THEN RootNode ELSE CwdNode

\* kernel path resolution: the node a path names in directory set d, or
\* NoNode when a component that must be a directory is not one
RECURSIVE Walk(_, _, _, _)
Walk(d, cur, comps, i) ==
    IF cur = NoNode THEN NoNode
    ELSE IF i > Len(comps) THEN cur
    ELSE IF cur \notin d THEN NoNode
    ELSE IF comps[i] = EmptyStr \/ comps[i] = CURDIR THEN Walk(d, cur, comps, i + 1)
    ELSE IF comps[i] = PARDIR THEN Walk(d, Parent(cur), comps, i + 1)
    ELSE Walk(d, Append(cur, comps[i]), comps, i + 1)

Resolve(d, p) == IF p = EmptyStr THEN NoNode ELSE Walk(d, StartNode(p), Components(p), 1)

\* os.path.exists / os.path.isfile / os.path.isdir
exists(d, f, p) == LET n == Resolve(d, p) IN n # NoNode /\ (n \in d \/ n \in DOMAIN f)
isfile(d, f, p) == LET n == Resolve(d, p) IN n # NoNode /\ n \in DOMAIN f
isdir(d, p) == LET n == Resolve(d, p) IN n # NoNode /\ n \in d

\* os.makedirs(p, exist_ok=True): ok is FALSE when it raises; dirs is the
\* directory set it leaves behind
RECURSIVE MkWalk(_, _, _, _, _)
MkWalk(d, f, cur, comps, i) ==
    IF i > Len(comps) THEN [ok |-> TRUE, dirs |-> d]
    ELSE IF comps[i] = EmptyStr \/ comps[i] = CURDIR THEN MkWalk(d, f, cur, comps, i + 1)
    ELSE IF comps[i] = PARDIR THEN MkWalk(d, f, Parent(cur), comps, i + 1)
    ELSE LET nxt == Append(cur, comps[i])
         IN IF nxt \in DOMAIN f THEN [ok |-> FALSE, dirs |-> d]
            ELSE MkWalk(d \cup {nxt}, f, nxt, comps, i + 1)

makedirs(d, f, p) ==
    IF p = EmptyStr THEN [ok |-> FALSE, dirs |-> d]
    ELSE MkWalk(d, f, StartNode(p), Components(p), 1)

\* a node lies inside the directory tree rooted at node r
Inside(n, r) == Len(n) >= Len(r) /\ SubSeq(n, 1, Len(r)) = r

(* ---------------------------------------------------------------------- *)
(* Exceptions, messages and tool results                                   *)
(* ---------------------------------------------------------------------- *)
\* the text of a Python string built by an f-string: text + path + tail
Msg(text, path, tail) == [text |-> text, path |-> path, tail |-> tail]
NoMsg == Msg("", EmptyStr, "")

Exc(type, msg) == [type |-> type, msg |-> msg]
NoExc == Exc("", NoMsg)

\* the domain exceptions imported from excel_mcp.exceptions
DomainErrors ==
    {"ValidationError", "WorkbookError", "SheetError", "DataError",
     "FormattingError", "CalculationError", "PivotError", "ChartError"}

\* the exception classes a library call may raise
ExcTypes == DomainErrors \cup {"ValueError", "Exception"}

\* what one library call does: return its normal result, return a dict with
\* an "error" key, or raise
LibOutcomes == {"ok", "errdict", "nosheet"} \cup ExcTypes

\* the message an exception raised inside the library carries
LibExc(type) == Exc(type, Msg("boom", EmptyStr, ""))

\* one library operation invoked: its function, the path handed to it and
\* what it did
Call(fn, path, outcome) == [fn |-> fn, path |-> path, outcome |-> outcome]

\* what a tool call gives its caller: the string prefix + msg, or an
\* exception that escapes (raised); calls are the library operations invoked
ToolResult(raised, prefix, msg, calls, logged) ==
    [raised |-> raised, prefix |-> prefix, msg |-> msg, calls |-> calls, logged |-> logged]

(* ---------------------------------------------------------------------- *)
(* Path resolver                                                           *)
(* ---------------------------------------------------------------------- *)
FileNotFoundMsg(p) == Msg("File not found: ", p, "")
InvalidPathMsg(p) ==
    Msg("Invalid filename: ", p, ", must be an absolute path when not in SSE mode")

PathOk(p) == [ok |-> TRUE, path |-> p, exc |-> NoExc]
PathFail(m) == [ok |-> FALSE, path |-> EmptyStr, exc |-> Exc("ValueError", m)]

\* get_excel_path without the files-root check: a relative filename is
\* looked up as given
get_excel_path_NoModeCheck(root, d, f, filename) ==
    IF ~isabs(filename) /\ root = None
    THEN IF exists(d, f, filename) THEN PathOk(filename)
         ELSE PathFail(FileNotFoundMsg(filename))
    ELSE IF exists(d, f, join(IF root = None THEN EmptyStr ELSE root, filename))
    THEN PathOk(join(IF root = None THEN EmptyStr ELSE root, filename))
    ELSE PathFail(FileNotFoundMsg(join(IF root = None THEN EmptyStr ELSE root, filename)))

\* get_excel_path without the existence check of an absolute filename
get_excel_path_NoExistCheck(root, d, f, filename) ==
    IF isabs(filename) THEN PathOk(filename)
    ELSE IF root = None THEN PathFail(InvalidPathMsg(filename))
    ELSE IF ~exists(d, f, join(root, filename))
    THEN PathFail(FileNotFoundMsg(join(root, filename)))
    ELSE PathOk(join(root, filename))

\* get_excel_path returning the filename, not the joined path
get_excel_path_ReturnsFilename(root, d, f, filename) ==
    IF isabs(filename)
    THEN IF exists(d, f, filename) THEN PathOk(filename)
         ELSE PathFail(FileNotFoundMsg(filename))
    ELSE IF root = None THEN PathFail(InvalidPathMsg(filename))
    ELSE IF ~exists(d, f, join(root, filename))
    THEN PathFail(FileNotFoundMsg(join(root, filename)))
    ELSE PathOk(filename)

\* get_excel_path(filename) with the global files root, on filesystem (d, f)
get_excel_path(root, d, f, filename) ==
    IF isabs(filename)
    THEN IF exists(d, f, filename) THEN PathOk(filename)
         ELSE PathFail(FileNotFoundMsg(filename))
    ELSE IF root = None THEN PathFail(InvalidPathMsg(filename))
    ELSE LET full_path == join(root, filename)
         IN IF ~exists(d, f, full_path) THEN PathFail(FileNotFoundMsg(full_path))
            ELSE PathOk(full_path)

(* ---------------------------------------------------------------------- *)
(* Tool dispatch layer: the except clauses of every tool                   *)
(* ---------------------------------------------------------------------- *)
Tools ==
    {"apply_formula", "validate_formula_syntax", "format_range",
     "read_data_from_excel", "write_data_to_excel", "create_workbook",
     "create_worksheet", "create_chart", "create_pivot_table", "create_table",
     "copy_worksheet", "delete_worksheet", "rename_worksheet",
     "get_workbook_metadata", "merge_cells", "unmerge_cells",
     "get_merged_cells", "copy_range", "delete_range", "validate_excel_range",
     "get_data_validation_info"}

\* the tools with an `except ValueError` clause, which comes first
CatchesValueError(tool) ==
    tool \in {"apply_formula", "read_data_from_excel", "write_data_to_excel",
              "get_workbook_metadata"}

\* every tool naming every domain exception in its except clause
Recognized_AllDomain(tool) == DomainErrors

\* the domain exceptions a tool's `except (...)` clause names
Recognized(tool) ==
    CASE tool \in {"apply_formula", "validate_formula_syntax"} ->
            {"ValidationError", "CalculationError"}
      [] tool = "format_range" -> {"ValidationError", "FormattingError"}
      [] tool = "write_data_to_excel" -> {"ValidationError", "DataError"}
      [] tool \in {"create_workbook", "get_workbook_metadata"} -> {"WorkbookError"}
      [] tool = "create_worksheet" -> {"ValidationError", "WorkbookError"}
      [] tool = "create_chart" -> {"ValidationError", "ChartError"}
      [] tool = "create_pivot_table" -> {"ValidationError", "PivotError"}
      [] tool = "create_table" -> {"DataError"}
      [] tool \in {"copy_worksheet", "delete_worksheet", "rename_worksheet",
                   "merge_cells", "unmerge_cells", "get_merged_cells",
                   "copy_range", "delete_range"} ->
            {"ValidationError", "SheetError"}
      [] tool = "validate_excel_range" -> {"ValidationError"}
      [] OTHER -> {}

\* the prefix of a tool's catch-all `except Exception` clause
OpPrefix(tool) ==
    CASE tool = "apply_formula" -> "Error applying formula: "
      [] tool = "validate_formula_syntax" -> "Error validating formula: "
      [] tool = "format_range" -> "Error formatting range: "
      [] tool = "read_data_from_excel" -> "Error reading data: "
      [] tool = "write_data_to_excel" -> "Error writing data: "
      [] tool = "create_workbook" -> "Error creating workbook: "
      [] tool = "create_worksheet" -> "Error creating worksheet: "
      [] tool = "create_chart" -> "Error creating chart: "
      [] tool = "create_pivot_table" -> "Error creating pivot table: "
      [] tool = "create_table" -> "Error creating table: "
      [] tool = "copy_worksheet" -> "Error copying worksheet: "
      [] tool = "delete_worksheet" -> "Error deleting worksheet: "
      [] tool = "rename_worksheet" -> "Error renaming worksheet: "
      [] tool = "get_workbook_metadata" -> "Error getting workbook metadata: "
      [] tool = "merge_cells" -> "Error merging cells: "
      [] tool = "unmerge_cells" -> "Error unmerging cells: "
      [] tool = "get_merged_cells" -> "Error getting merged cells: "
      [] tool = "copy_range" -> "Error copying range: "
      [] tool = "delete_range" -> "Error deleting range: "
      [] tool = "validate_excel_range" -> "Error validating range: "
      [] OTHER -> "Error getting validation info: "

\* the except clauses without the catch-all: an unrecognized exception
\* escapes the tool
Handle_NoCatchAll(tool, e, calls) ==
    IF CatchesValueError(tool) /\ e.type = "ValueError"
    THEN ToolResult(FALSE, "File path error: ", e.msg, calls, FALSE)
    ELSE IF e.type \in Recognized(tool)
    THEN ToolResult(FALSE, "Error: ", e.msg, calls, FALSE)
    ELSE ToolResult(TRUE, "", e.msg, calls, TRUE)

\* the except clauses of a tool, in source order, applied to exception e
\* raised after the library calls in `calls`
Handle(tool, e, calls) ==
    IF CatchesValueError(tool) /\ e.type = "ValueError"
    THEN ToolResult(FALSE, "File path error: ", e.msg, calls, FALSE)
    ELSE IF e.type \in Recognized(tool)
    THEN ToolResult(FALSE, "Error: ", e.msg, calls, FALSE)
    ELSE ToolResult(FALSE, OpPrefix(tool), e.msg, calls, TRUE)

(* ---------------------------------------------------------------------- *)
(* The spreadsheet library (package excel_mcp), seen from the dispatcher  *)
(* ---------------------------------------------------------------------- *)
\* a file's content: its size in bytes and what the cells A1 and B2 hold
Content(size, cell) == [size |-> size, cell |-> cell, b2 |-> ""]
NewWorkbook == Content(1, "")

\* the library function a tool forwards to
LibFn(tool) == tool

\* the outcomes the library can have for a tool on a resolved path: it can
\* only succeed on a regular file
OutcomesOf(tool, isFile) ==
    (IF isFile THEN {"ok"} ELSE {})
    \cup (IF isFile /\ tool = "get_data_validation_info" THEN {"nosheet"} ELSE {})
    \cup ExcTypes

\* the file map after the library operation of a tool succeeded on node n
LibEffect(tool, f, n) ==
    IF tool = "write_data_to_excel" THEN [f EXCEPT ![n].cell = "d"]
    ELSE IF tool = "apply_formula" THEN [f EXCEPT ![n].cell = "f"]
    ELSE f

\* the string a tool returns after its library operation succeeded
SuccessMsg(tool, f, n) ==
    IF tool = "read_data_from_excel" /\ f[n].cell = ""
    THEN Msg("No data found in specified range", EmptyStr, "")
    ELSE IF tool = "get_data_validation_info"
    THEN Msg("No data validation rules found in this worksheet", EmptyStr, "")
    ELSE Msg("done", EmptyStr, "")

(* ---------------------------------------------------------------------- *)
(* Tools                                                                   *)
(* ---------------------------------------------------------------------- *)
\* every tool of the shape: resolve the path, forward to one library
\* operation, translate exceptions
ToolOp(tool, root, d, f, filepath, o) ==
    LET r == get_excel_path(root, d, f, filepath)
        n == Resolve(d, r.path)
        calls == <<Call(LibFn(tool), r.path, o)>>
    IN IF ~r.ok THEN [res |-> Handle(tool, r.exc, <<>>), files |-> f]
       ELSE IF o = "ok"
       THEN [res |-> ToolResult(FALSE, "", SuccessMsg(tool, f, n), calls, FALSE),
             files |-> LibEffect(tool, f, n)]
       ELSE IF o = "nosheet"
       THEN [res |-> ToolResult(FALSE, "Error: ", Msg("Sheet not found", EmptyStr, ""),
                                calls, FALSE),
             files |-> f]
       ELSE [res |-> Handle(tool, LibExc(o), calls), files |-> f]

\* apply_formula that does not look at the validation result
apply_formula_NoShortCircuit(root, d, f, filepath, vo, ao) ==
    LET r == get_excel_path(root, d, f, filepath)
        n == Resolve(d, r.path)
        vcall == <<Call("validate_formula_impl", r.path, vo)>>
        acall == Append(vcall, Call("apply_formula_impl", r.path, ao))
    IN IF ~r.ok THEN [res |-> Handle("apply_formula", r.exc, <<>>), files |-> f]
       ELSE IF vo \notin {"ok", "errdict"}
       THEN [res |-> Handle("apply_formula", LibExc(vo), vcall), files |-> f]
       ELSE IF ao = "ok"
       THEN [res |-> ToolResult(FALSE, "", Msg("done", EmptyStr, ""), acall, FALSE),
             files |-> LibEffect("apply_formula", f, n)]
       ELSE [res |-> Handle("apply_formula", LibExc(ao), acall), files |-> f]

\* apply_formula: validate, then apply
apply_formula(root, d, f, filepath, vo, ao) ==
    LET r == get_excel_path(root, d, f, filepath)
        n == Resolve(d, r.path)
        vcall == <<Call("validate_formula_impl", r.path, vo)>>
        acall == Append(vcall, Call("apply_formula_impl", r.path, ao))
    IN IF ~r.ok THEN [res |-> Handle("apply_formula", r.exc, <<>>), files |-> f]
       ELSE IF vo = "errdict"
       THEN [res |-> ToolResult(FALSE, "Error: ", Msg("invalid", EmptyStr, ""), vcall, FALSE),
             files |-> f]
       ELSE IF vo # "ok"
       THEN [res |-> Handle("apply_formula", LibExc(vo), vcall), files |-> f]
       ELSE IF ao = "ok"
       THEN [res |-> ToolResult(FALSE, "", Msg("done", EmptyStr, ""), acall, FALSE),
             files |-> LibEffect("apply_formula", f, n)]
       ELSE [res |-> Handle("apply_formula", LibExc(ao), acall), files |-> f]

\* the path create_workbook hands to the library, None when it returns early
create_full_path(root, filepath) ==
    IF isabs(filepath) THEN filepath
    ELSE IF root = None THEN None
    ELSE join(root, filepath)

\* create_workbook that does not create the parent directories
create_workbook_NoMakedirs(root, d, f, filepath, o) ==
    LET full_path == create_full_path(root, filepath)
        n == Resolve(makedirs(d, f, dirname(full_path)).dirs, full_path)
        call == <<Call("create_workbook_impl", full_path, o)>>
    IN IF full_path = None
       THEN [res |-> ToolResult(FALSE, "Error: ", InvalidPathMsg(filepath), <<>>, FALSE),
             dirs |-> d, files |-> f]
       ELSE IF o = "ok"
       THEN [res |-> ToolResult(FALSE, "", Msg("Created workbook at ", full_path, ""),
                                call, FALSE),
             dirs |-> d,
             files |-> [m \in DOMAIN f \cup {n} |-> IF m = n THEN NewWorkbook ELSE f[m]]]
       ELSE [res |-> Handle("create_workbook", LibExc(o), call),
             dirs |-> d, files |-> f]

\* create_workbook: no existence check; parent directories are created
create_workbook(root, d, f, filepath, o) ==
    LET full_path == create_full_path(root, filepath)
        directory == dirname(full_path)
        mk == IF directory # EmptyStr THEN makedirs(d, f, directory)
              ELSE [ok |-> TRUE, dirs |-> d]
        n == Resolve(mk.dirs, full_path)
        call == <<Call("create_workbook_impl", full_path, o)>>
    IN IF full_path = None
       THEN [res |-> ToolResult(FALSE, "Error: ", InvalidPathMsg(filepath), <<>>, FALSE),
             dirs |-> d, files |-> f]
       ELSE IF ~mk.ok
       THEN [res |-> Handle("create_workbook", LibExc("Exception"), <<>>),
             dirs |-> mk.dirs, files |-> f]
       ELSE IF o = "ok"
       THEN [res |-> ToolResult(FALSE, "", Msg("Created workbook at ", full_path, ""),
                                call, FALSE),
             dirs |-> mk.dirs,
             files |-> [m \in DOMAIN f \cup {n} |-> IF m = n THEN NewWorkbook ELSE f[m]]]
       ELSE [res |-> Handle("create_workbook", LibExc(o), call),
             dirs |-> mk.dirs, files |-> f]

\* the library can write a workbook at full_path only when the path names a
\* place in an existing directory that is not itself a directory
CanCreate(d, full_path) ==
    LET n == Resolve(d, full_path)
    IN n # NoNode /\ n \notin d /\ Parent(n) \in d /\ ~EndsWith(full_path, SEP)

(* ---------------------------------------------------------------------- *)
(* Auxiliary HTTP endpoints of run_streamable_http                         *)
(* ---------------------------------------------------------------------- *)
allowed_extensions == {<<".", "xlsx">>, <<".", "xls">>, <<".", "xlsm">>}

NoBody ==
    [filename |-> EmptyStr, user_id |-> EmptyStr, file_path |-> EmptyStr,
     full_path |-> EmptyStr, size_bytes |-> 0, files |-> {}, count |-> 0]

\* an HTTP response: status, the error detail or message, the keys of the
\* JSON body and their values
HttpResp(status, detail, keys, body) ==
    [status |-> status, detail |-> detail, keys |-> keys, body |-> body]

HttpError(status, detail) == HttpResp(status, detail, {"detail"}, NoBody)

\* os.listdir of directory node n
listdir(d, f, n) == {c \in {m[Len(m)] : m \in {x \in d \cup DOMAIN f : x # RootNode}} :
                        Append(n, c) \in d \cup DOMAIN f}

\* open(path, "wb") succeeds: the path names a place in an existing
\* directory that is not itself a directory
CanOpenForWrite(d, path) == CanCreate(d, path)

\* POST /upload/{user_id}
upload_excel_file(root, d, f, user_id, filename, size) ==
    LET file_extension == Lower(splitext_ext(filename))
        user_dir == join(root, user_id)
        mk == makedirs(d, f, user_dir)
        file_path == join(user_dir, filename)
        relative_path == join(user_id, filename)
        n == Resolve(mk.dirs, file_path)
        f2 == [m \in DOMAIN f \cup {n} |-> IF m = n THEN Content(size, "") ELSE f[m]]
    IN IF filename = EmptyStr
       THEN [resp |-> HttpError(400, "No file provided"), dirs |-> d, files |-> f]
       ELSE IF file_extension \notin allowed_extensions
       THEN [resp |-> HttpError(400, "Invalid file type"), dirs |-> d, files |-> f]
       ELSE IF ~mk.ok
       THEN [resp |-> HttpError(500, "Upload failed"), dirs |-> mk.dirs, files |-> f]
       ELSE IF ~CanOpenForWrite(mk.dirs, file_path)
       THEN [resp |-> HttpError(500, "Upload failed"), dirs |-> mk.dirs, files |-> f]
       ELSE [resp |-> HttpResp(200, "File uploaded successfully",
                        {"message", "filename", "user_id", "file_path", "full_path",
                         "size_bytes"},
                        [NoBody EXCEPT !.filename = filename, !.user_id = user_id,
                                       !.file_path = relative_path,
                                       !.full_path = file_path,
                                       !.size_bytes = f2[n].size]),
             dirs |-> mk.dirs, files |-> f2]

\* one entry of the listing
FileEntry(d, f, user_id, user_dir, filename) ==
    [filename |-> filename,
     relative_path |-> join(user_id, filename),
     size_bytes |-> f[Resolve(d, join(user_dir, filename))].size]

\* GET /files/{user_id}
list_user_files(root, d, f, user_id) ==
    LET user_dir == join(root, user_id)
        n == Resolve(d, user_dir)
        listed == {FileEntry(d, f, user_id, user_dir, c) :
                      c \in {c2 \in listdir(d, f, n) : isfile(d, f, join(user_dir, c2))}}
    IN IF ~exists(d, f, user_dir)
       THEN HttpResp(200, "User directory does not exist",
                     {"user_id", "files", "message"},
                     [NoBody EXCEPT !.user_id = user_id])
       ELSE IF n \notin d
       THEN HttpError(500, "Failed to list files")
       ELSE HttpResp(200, "", {"user_id", "files", "count"},
                     [NoBody EXCEPT !.user_id = user_id, !.files = listed,
                                    !.count = Cardinality(listed)])

\* DELETE /files/{user_id}/{filename}
delete_user_file(root, d, f, user_id, filename) ==
    LET file_path == join3(root, user_id, filename)
        n == Resolve(d, file_path)
    IN IF ~exists(d, f, file_path)
       THEN [resp |-> HttpError(404, "File not found"), files |-> f]
       ELSE IF n \notin DOMAIN f
       THEN [resp |-> HttpError(500, "Failed to delete file"), files |-> f]
       ELSE [resp |-> HttpResp(200, "File deleted successfully",
                        {"message", "filename", "user_id"},
                        [NoBody EXCEPT !.filename = filename, !.user_id = user_id]),
             files |-> [m \in DOMAIN f \ {n} |-> f[m]]]

(* ---------------------------------------------------------------------- *)
(* Transport bootstrap                                                     *)
(* ---------------------------------------------------------------------- *)
\* os.environ.get("EXCEL_FILES_PATH", "./excel_files")
environ_get(env) == IF env = None THEN S_default_root ELSE env

(* ---------------------------------------------------------------------- *)
(* Inputs                                                                  *)
(* ---------------------------------------------------------------------- *)
EnvValues == {None, S_abs_data, EmptyStr}
FilePaths == {S_r, S_r_q_xlsx, S_up_q_xlsx, S_abs_x_xlsx, EmptyStr}
Users == {<<"u1">>, <<"u2">>}
UploadNames == {S_a_xlsx, S_b_XLSX, S_n_txt, EmptyStr, S_up_a_xlsx}
DeleteNames == {S_a_xlsx, <<"d">>}
Sizes == 1..MaxSize

\* the disk holds MaxFiles regular files
HasRoom(f, f2) == Cardinality(DOMAIN f2) <= MaxFiles \/ DOMAIN f2 \subseteq DOMAIN f

(* ---------------------------------------------------------------------- *)
(* State machine                                                           *)
(* ---------------------------------------------------------------------- *)
Request(op, user, filepath, res) ==
    [op |-> op, user |-> user, filepath |-> filepath, res |-> res]

\* how a run function ended: the exception that ended it ("" when it
\* returned without one) and whether the exception reached its caller
Exit(cause, raised) == [cause |-> cause, raised |-> raised]
Running == Exit("running", FALSE)

\* the first record of each run function
StartingLog(m) ==
    IF m = "stdio" THEN "Starting Excel MCP server with stdio transport"
    ELSE IF m = "sse" THEN "Starting Excel MCP server with SSE transport"
    ELSE "Starting Excel MCP server with FastAPI integration"

\* the records written before the transport runs
StartupLog(m) ==
    IF m = "http"
    THEN <<StartingLog(m), "Server will be available at:", "  - API Health Check",
           "  - API Root", "  - MCP Endpoint", "  - API Docs">>
    ELSE <<StartingLog(m)>>

\* the state after import: the files root unassigned, no server running;
\* the environment variable EXCEL_FILES_PATH is one of envs (None: unset)
InitEnv(envs) ==
    /\ EXCEL_FILES_PATH = None
    /\ phase = "boot"
    /\ mode = "none"
    /\ environ \in envs
    /\ dirs = {RootNode, CwdNode}
    /\ files = << >>
    /\ last = Request("none", EmptyStr, EmptyStr, NoMsg)
    /\ log = << >>
    /\ exit = Running
    /\ writers = << >>
    /\ validated = << >>

\* run_stdio assigning the files root as the other two modes do
run_stdio_AssignsRoot ==
    /\ phase = "boot"
    /\ phase' = "serving"
    /\ mode' = "stdio"
    /\ EXCEL_FILES_PATH' = environ_get(environ)
    /\ log' = <<StartingLog("stdio")>>
    /\ UNCHANGED <<environ, dirs, files, last, exit, writers, validated>>

run_stdio ==
    /\ phase = "boot"
    /\ phase' = "serving"
    /\ mode' = "stdio"
    /\ log' = <<StartingLog("stdio")>>
    /\ UNCHANGED <<EXCEL_FILES_PATH, environ, dirs, files, last, exit, writers, validated>>

\* the first lines of run_sse and run_streamable_http: the files root is
\* assigned and its directory created; an exception of makedirs propagates
SetFilesRoot(m) ==
    LET mk == makedirs(dirs, files, environ_get(environ))
    IN /\ phase = "boot"
       /\ EXCEL_FILES_PATH' = environ_get(environ)
       /\ dirs' = mk.dirs
       /\ phase' = IF mk.ok THEN "serving" ELSE "failed"
       /\ exit' = IF mk.ok THEN Running ELSE Exit("OSError", TRUE)
       /\ log' = IF mk.ok THEN StartupLog(m) ELSE log
       /\ mode' = m
       /\ UNCHANGED <<environ, files, last, writers, validated>>

run_sse == SetFilesRoot("sse")

run_streamable_http == SetFilesRoot("http")

ToolCall(tools, paths, outcomes) ==
    /\ phase = "serving"
    /\ \E tool \in tools, filepath \in paths :
         LET r == get_excel_path(EXCEL_FILES_PATH, dirs, files, filepath)
         IN \E o \in IF r.ok THEN OutcomesOf(tool, isfile(dirs, files, r.path)) \cap outcomes
                         ELSE {"ok"} :
              LET out == ToolOp(tool, EXCEL_FILES_PATH, dirs, files, filepath, o)
              IN /\ files' = out.files
                 /\ last' = Request(tool, EmptyStr, filepath, out.res)
    /\ UNCHANGED <<EXCEL_FILES_PATH, phase, mode, environ, dirs, log, exit, writers, validated>>

ApplyFormula(paths, outcomes) ==
    /\ phase = "serving"
    /\ \E filepath \in paths :
         LET r == get_excel_path(EXCEL_FILES_PATH, dirs, files, filepath)
             possible == IF r.ok
                         THEN (OutcomesOf("apply_formula", isfile(dirs, files, r.path))
                               \cup (IF isfile(dirs, files, r.path) THEN {"errdict"} ELSE {}))
                              \cap outcomes
                         ELSE {"ok"}
         IN \E vo \in possible :
              \E ao \in IF r.ok /\ vo = "ok" THEN possible \ {"errdict"} ELSE {"ok"} :
                LET out == apply_formula(EXCEL_FILES_PATH, dirs, files, filepath, vo, ao)
                IN /\ files' = out.files
                   /\ last' = Request("apply_formula", EmptyStr, filepath, out.res)
    /\ UNCHANGED <<EXCEL_FILES_PATH, phase, mode, environ, dirs, log, exit, writers, validated>>

CreateWorkbook(paths, outcomes) ==
    /\ phase = "serving"
    /\ \E filepath \in paths :
         LET full_path == create_full_path(EXCEL_FILES_PATH, filepath)
             dir == dirname(full_path)
             mk == IF full_path # None /\ dir # EmptyStr
                   THEN makedirs(dirs, files, dir) ELSE [ok |-> FALSE, dirs |-> dirs]
             possible == IF full_path # None /\ mk.ok
                         THEN (IF CanCreate(mk.dirs, full_path) THEN outcomes
                               ELSE outcomes \ {"ok"})
                         ELSE {"ok"}
         IN \E o \in possible :
              LET out == create_workbook(EXCEL_FILES_PATH, dirs, files, filepath, o)
              IN /\ HasRoom(files, out.files)
                 /\ dirs' = out.dirs
                 /\ files' = out.files
                 /\ last' = Request("create_workbook", EmptyStr, filepath, out.res)
    /\ UNCHANGED <<EXCEL_FILES_PATH, phase, mode, environ, log, exit, writers, validated>>

UploadAs(names) ==
    /\ phase = "serving" /\ mode = "http"
    /\ \E user_id \in Users, filename \in names, size \in Sizes :
         LET out == upload_excel_file(EXCEL_FILES_PATH, dirs, files, user_id, filename, size)
         IN /\ HasRoom(files, out.files)
            /\ dirs' = out.dirs
            /\ files' = out.files
            /\ last' = Request("upload", user_id, filename, out.resp)
    /\ UNCHANGED <<EXCEL_FILES_PATH, phase, mode, environ, log, exit, writers, validated>>

Upload == UploadAs(UploadNames)

ListFiles ==
    /\ phase = "serving" /\ mode = "http"
    /\ \E user_id \in Users :
         last' = Request("list", user_id, EmptyStr,
                         list_user_files(EXCEL_FILES_PATH, dirs, files, user_id))
    /\ UNCHANGED <<EXCEL_FILES_PATH, phase, mode, environ, dirs, files, log, exit, writers, validated>>

Delete ==
    /\ phase = "serving" /\ mode = "http"
    /\ \E user_id \in Users, filename \in DeleteNames :
         LET out == delete_user_file(EXCEL_FILES_PATH, dirs, files, user_id, filename)
         IN /\ files' = out.files
            /\ last' = Request("delete", user_id, filename, out.resp)
    /\ UNCHANGED <<EXCEL_FILES_PATH, phase, mode, environ, dirs, log, exit, writers, validated>>

(* ---------------------------------------------------------------------- *)
(* Spec: the path resolver and the tools that change the filesystem, over  *)
(* many paths                                                              *)
(* ---------------------------------------------------------------------- *)
SpecTools == {"get_workbook_metadata", "validate_formula_syntax"}
SpecOutcomes == {"ok", "errdict", "ValidationError", "Exception"}

Init == InitEnv({None, S_abs_data})

Next ==
    \/ run_stdio
    \/ run_sse
    \/ ToolCall(SpecTools, FilePaths, SpecOutcomes)
    \/ ApplyFormula(FilePaths, SpecOutcomes)
    \/ CreateWorkbook(FilePaths, SpecOutcomes \ {"errdict"})

Spec == Init /\ [][Next]_vars

(* ---------------------------------------------------------------------- *)
(* SpecDispatch: every tool with every library outcome, on one relative    *)
(* path                                                                    *)
(* ---------------------------------------------------------------------- *)
DispatchPaths == {S_a_xlsx}

InitDispatch == InitEnv({S_abs_data})

NextDispatch ==
    \/ run_stdio
    \/ run_sse
    \/ ToolCall(Tools \ {"apply_formula", "create_workbook"}, DispatchPaths, LibOutcomes)
    \/ ApplyFormula(DispatchPaths, LibOutcomes)
    \/ CreateWorkbook(DispatchPaths, LibOutcomes \ {"errdict", "nosheet"})

SpecDispatch == InitDispatch /\ [][NextDispatch]_vars

(* ---------------------------------------------------------------------- *)
(* SpecHttp: the three run modes, the auxiliary endpoints and workbook     *)
(* creation under the files root                                           *)
(* ---------------------------------------------------------------------- *)
HttpPaths == {S_u1_d_a_xlsx}

InitHttp == InitEnv(EnvValues)

NextHttp ==
    \/ run_stdio
    \/ run_sse
    \/ run_streamable_http
    \/ CreateWorkbook(HttpPaths, {"ok"})
    \/ Upload
    \/ ListFiles
    \/ Delete

SpecHttp == InitHttp /\ [][NextHttp]_vars

(* ---------------------------------------------------------------------- *)
(* Properties                                                              *)
(* ---------------------------------------------------------------------- *)
\* the tools that resolve their file argument through get_excel_path
PathTools == Tools \ {"create_workbook"}

\* the result of the step is an error string returned to the caller
ReturnsError(res, tool) ==
    ~res.raised /\ res.prefix \in {"Error: ", "File path error: ", OpPrefix(tool)}

\* C1: in standard-I/O mode (files root unset) every call with a relative
\* filename is refused with the InvalidPath message, no library operation is
\* invoked and no directory or file is created; create_workbook returns the
\* message with the prefix "Error: ".
C1_StdioRejectsRelative ==
    [][(phase = "serving" /\ mode = "stdio" /\ ~isabs(last'.filepath)) =>
           /\ EXCEL_FILES_PATH = None
           /\ ReturnsError(last'.res, last'.op)
           /\ last'.res.msg = Msg("Invalid filename: ", last'.filepath,
                                  ", must be an absolute path when not in SSE mode")
           /\ last'.res.calls = << >>
           /\ dirs' = dirs
           /\ files' = files
           /\ (last'.op = "create_workbook" => last'.res.prefix = "Error: ")]_vars

C1_Witness ==
    /\ mode = "stdio"
    /\ last.op = "create_workbook"
    /\ last.filepath = S_r_q_xlsx
    /\ last.res.prefix = "Error: "

\* C2: for an absolute filename, whatever the files root, get_excel_path
\* hands the filename unchanged to the library when it exists on disk and
\* fails with "File not found: <filename>" when it does not.
C2_AbsolutePath ==
    [][(phase = "serving" /\ last'.op \in PathTools /\ isabs(last'.filepath)) =>
           IF exists(dirs, files, last'.filepath)
           THEN /\ last'.res.calls # << >>
                /\ \A i \in 1..Len(last'.res.calls) :
                       last'.res.calls[i].path = last'.filepath
           ELSE /\ last'.res.calls = << >>
                /\ ReturnsError(last'.res, last'.op)
                /\ last'.res.msg = Msg("File not found: ", last'.filepath, "")]_vars

C2_Witness ==
    /\ EXCEL_FILES_PATH = S_abs_data
    /\ last.op = "get_workbook_metadata"
    /\ last.filepath = S_abs_x_xlsx
    /\ last.res.prefix = ""
    /\ last.res.calls[1].path = S_abs_x_xlsx

\* C3: for a relative filename with the files root set, get_excel_path hands
\* <files root>/<filename> to the library when that path exists and fails
\* with "File not found" when it does not.
C3_RelativeUnderRoot ==
    [][(phase = "serving" /\ EXCEL_FILES_PATH # None /\ last'.op \in PathTools
        /\ ~isabs(last'.filepath)) =>
           LET joined == EXCEL_FILES_PATH \o <<SEP>> \o last'.filepath
           IN IF exists(dirs, files, joined)
              THEN /\ last'.res.calls # << >>
                   /\ \A i \in 1..Len(last'.res.calls) :
                          last'.res.calls[i].path = joined
              ELSE /\ last'.res.calls = << >>
                   /\ ReturnsError(last'.res, last'.op)
                   /\ last'.res.msg = Msg("File not found: ", joined, "")]_vars

C3_Witness ==
    /\ EXCEL_FILES_PATH = S_abs_data
    /\ last.op = "apply_formula"
    /\ last.filepath = S_r_q_xlsx
    /\ last.res.prefix = ""
    /\ last.res.calls[1].path = <<"/", "data", "/", "r", "/", "q", ".", "xlsx">>

\* C4: with the files root set, whenever a call with a relative filename
\* succeeds in resolving its path (create_workbook: in creating the
\* workbook), the path handed to the library names a place inside the
\* directory tree of the files root.
C4_RelativeStaysUnderRoot ==
    (/\ EXCEL_FILES_PATH # None
     /\ last.op \in Tools
     /\ ~isabs(last.filepath)
     /\ last.res.calls # << >>
     /\ (last.op = "create_workbook" => last.res.prefix = "")) =>
        Inside(Resolve(dirs, last.res.calls[1].path), Resolve(dirs, EXCEL_FILES_PATH))

\* C5: when the validation step of apply_formula reports a failure (an
\* error result or an exception), the library's apply operation is not
\* invoked, the file is unchanged and the failure is returned to the caller.
C5_NoUnvalidatedFormula ==
    [][(/\ phase = "serving"
        /\ last'.op = "apply_formula"
        /\ last'.res.calls # << >>
        /\ last'.res.calls[1].outcome # "ok") =>
           /\ last'.res.calls[1].fn = "validate_formula_impl"
           /\ \A i \in 1..Len(last'.res.calls) :
                  last'.res.calls[i].fn # "apply_formula_impl"
           /\ files' = files
           /\ ReturnsError(last'.res, "apply_formula")
           /\ last'.res.msg =
                  IF last'.res.calls[1].outcome = "errdict"
                  THEN Msg("invalid", EmptyStr, "") ELSE Msg("boom", EmptyStr, "")]_vars

C5_Witness ==
    /\ last.op = "apply_formula"
    /\ Len(last.res.calls) = 1
    /\ last.res.calls[1].outcome = "errdict"
    /\ last.res.prefix = "Error: "
    /\ \E n \in DOMAIN files : files[n].cell = ""

\* a tool call failed: no library operation was reached, or one did not
\* return normally
Failed(res) ==
    res.calls = << >> \/ \E i \in 1..Len(res.calls) : res.calls[i].outcome # "ok"

\* C6, as stated: every failed tool call returns a string prefixed "Error: "
\* or "Error <operation>: ".
C6_ErrorPrefix ==
    (last.op \in Tools /\ Failed(last.res)) =>
        /\ ~last.res.raised
        /\ last.res.prefix \in {"Error: ", OpPrefix(last.op)}

\* C6, amended: every failed tool call returns a string, prefixed "Error: ",
\* "Error <operation>: " or, for a ValueError in apply_formula,
\* read_data_from_excel, write_data_to_excel and get_workbook_metadata,
\* "File path error: ".
C6_ErrorPrefixAmended ==
    (last.op \in Tools /\ Failed(last.res)) =>
        /\ ~last.res.raised
        /\ last.res.prefix \in
               {"Error: ", OpPrefix(last.op)}
               \cup (IF /\ last.op \in {"apply_formula", "read_data_from_excel",
                                        "write_data_to_excel", "get_workbook_metadata"}
                        /\ \/ last.res.calls = << >>
                           \/ last.res.calls[Len(last.res.calls)].outcome = "ValueError"
                     THEN {"File path error: "} ELSE {})

C6_Witness ==
    /\ last.op = "write_data_to_excel"
    /\ last.res.calls = << >>
    /\ last.res.prefix = "File path error: "

\* C7: create_workbook with an absolute filepath, or a relative one with the
\* files root set, needs no existing target: unless the operating system
\* refuses the directories, every parent directory exists afterwards, the
\* library's create operation is invoked once on the joined full path, and
\* when it succeeds the workbook exists there and the message returned is
\* "Created workbook at <full path>".
C7_CreateWorkbook ==
    [][(/\ phase = "serving"
        /\ last'.op = "create_workbook"
        /\ (isabs(last'.filepath) \/ EXCEL_FILES_PATH # None)) =>
           LET full == IF isabs(last'.filepath) THEN last'.filepath
                       ELSE EXCEL_FILES_PATH \o <<SEP>> \o last'.filepath
               parent == dirname(full)
           IN makedirs(dirs, files, parent).ok =>
                /\ isdir(dirs', parent)
                /\ dirs \subseteq dirs'
                /\ Len(last'.res.calls) = 1
                /\ last'.res.calls[1].fn = "create_workbook_impl"
                /\ last'.res.calls[1].path = full
                /\ (last'.res.calls[1].outcome = "ok" =>
                       /\ ~last'.res.raised
                       /\ last'.res.prefix = ""
                       /\ last'.res.msg = Msg("Created workbook at ", full, "")
                       /\ isfile(dirs', files', full))]_vars

C7_Witness ==
    /\ EXCEL_FILES_PATH = S_abs_data
    /\ last.op = "create_workbook"
    /\ last.filepath = S_r_q_xlsx
    /\ last.res.msg = Msg("Created workbook at ",
                          <<"/", "data", "/", "r", "/", "q", ".", "xlsx">>, "")
    /\ <<<<"data">>, <<"r">>>> \in dirs
    /\ <<<<"data">>, <<"r">>, <<"q", ".", "xlsx">>>> \in DOMAIN files

\* C8: an upload with no filename or with an extension other than .xlsx,
\* .xls, .xlsm is answered 400; an accepted upload is listed by
\* GET /files/{user_id} under its filename with the size the upload reported.
C8_UploadListed ==
    last.op = "upload" =>
        /\ (last.filepath = EmptyStr
            \/ Lower(splitext_ext(last.filepath)) \notin allowed_extensions) =>
               last.res.status = 400
        /\ last.res.status = 200 =>
               \E e \in list_user_files(EXCEL_FILES_PATH, dirs, files, last.user).body.files :
                   /\ e.filename = last.filepath
                   /\ e.size_bytes = last.res.body.size_bytes

\* C9: DELETE answers 404 and changes nothing when no file is at the path;
\* when the file exists it answers success, the file is gone, and a second
\* DELETE of it answers 404.
C9_DeleteContract ==
    [][(phase = "serving" /\ last'.op = "delete") =>
           LET p == join3(EXCEL_FILES_PATH, last'.user, last'.filepath)
           IN IF isfile(dirs, files, p)
              THEN /\ last'.res.status = 200
                   /\ ~exists(dirs', files', p)
                   /\ delete_user_file(EXCEL_FILES_PATH, dirs', files', last'.user,
                                       last'.filepath).resp.status = 404
              ELSE /\ last'.res.status = 404
                   /\ files' = files
                   /\ dirs' = dirs]_vars

\* C10: the files root is assigned only while booting: run_stdio leaves it
\* unset, run_sse and run_streamable_http set it to the environment
\* variable EXCEL_FILES_PATH (default ./excel_files) before any request is
\* served, and no request changes it.
C10_FilesRootWrittenOnce ==
    [][/\ (phase # "boot" => EXCEL_FILES_PATH' = EXCEL_FILES_PATH)
       /\ (mode' = "stdio" => EXCEL_FILES_PATH' = None)
       /\ (mode' \in {"sse", "http"} =>
               EXCEL_FILES_PATH' = IF environ = None THEN <<".", "/", "excel_files">>
                                   ELSE environ)
       /\ (last'.op # "none" => phase = "serving")]_vars

C10_Witness ==
    /\ phase = "serving"
    /\ mode = "http"
    /\ EXCEL_FILES_PATH = <<".", "/", "excel_files">>
    /\ last.op = "upload"
    /\ last.res.status = 200

\* the names of the regular files directly in filesRoot/<user_id>
RegularFilesOf(root, d, f, user_id) ==
    LET n == Resolve(d, join(root, user_id))
    IN IF n = NoNode THEN {}
       ELSE {m[Len(m)] : m \in {x \in DOMAIN f : x # RootNode /\ Parent(x) = n}}

\* C11: every response of GET /files/{user_id}, the one for a user whose
\* directory does not exist included, has the keys user_id, files and count,
\* count is the number of entries of files, and files holds exactly the
\* regular files of filesRoot/<user_id>.
C11_ListShape ==
    last.op = "list" =>
        /\ last.res.keys = {"user_id", "files", "count"}
        /\ last.res.body.user_id = last.user
        /\ last.res.body.count = Cardinality(last.res.body.files)
        /\ {e.filename : e \in last.res.body.files}
               = RegularFilesOf(EXCEL_FILES_PATH, dirs, files, last.user)

(* ---------------------------------------------------------------------- *)
(* SpecValidate: validation-only calls between calls that change the file  *)
(* ---------------------------------------------------------------------- *)
Formulas == {"=A1", "=SUM("}

\* the library's validation: a pure function of the workbook and the
\* formula; a well-formed formula is compared with what the cell holds
validate_formula_impl(content, formula) ==
    IF formula = "=SUM("
    THEN [outcome |-> "ValidationError", msg |-> Msg("boom", EmptyStr, "")]
    ELSE IF content.cell = "f"
    THEN [outcome |-> "ok", msg |-> Msg("Formula is valid and matches cell content",
                                        EmptyStr, "")]
    ELSE [outcome |-> "ok", msg |-> Msg("Formula is valid but does not match cell content",
                                        EmptyStr, "")]

\* the library's validation of a formula at a resolved path: a path that
\* is not a workbook cannot be loaded
ValidationOf(d, f, path, formula) ==
    IF isfile(d, f, path) THEN validate_formula_impl(f[Resolve(d, path)], formula)
    ELSE [outcome |-> "Exception", msg |-> Msg("boom", EmptyStr, "")]

\* validate_formula_syntax forwarding to the applying operation as
\* apply_formula does
validate_formula_syntax_Applies(root, d, f, filepath, formula) ==
    LET r == get_excel_path(root, d, f, filepath)
        v == ValidationOf(d, f, r.path, formula)
        vcall == <<Call("validate_formula_impl", r.path, v.outcome)>>
        acall == Append(vcall, Call("apply_formula_impl", r.path, "ok"))
    IN IF ~r.ok
       THEN [res |-> Handle("validate_formula_syntax", r.exc, <<>>), files |-> f]
       ELSE IF v.outcome = "ok"
       THEN [res |-> ToolResult(FALSE, "", v.msg, acall, FALSE),
             files |-> LibEffect("apply_formula", f, Resolve(d, r.path))]
       ELSE [res |-> Handle("validate_formula_syntax", LibExc(v.outcome), vcall),
             files |-> f]

\* validate_formula_syntax: resolve the path, validate, return the message
validate_formula_syntax(root, d, f, filepath, formula) ==
    LET r == get_excel_path(root, d, f, filepath)
        v == ValidationOf(d, f, r.path, formula)
        vcall == <<Call("validate_formula_impl", r.path, v.outcome)>>
    IN IF ~r.ok
       THEN [res |-> Handle("validate_formula_syntax", r.exc, <<>>), files |-> f]
       ELSE IF v.outcome = "ok"
       THEN [res |-> ToolResult(FALSE, "", v.msg, vcall, FALSE), files |-> f]
       ELSE [res |-> Handle("validate_formula_syntax", LibExc(v.outcome), vcall),
             files |-> f]

\* one call of validate_formula_syntax as the history keeps it: its
\* arguments, the filesystem it ran on, the files it left and its result
ValidateRecord(filepath, formula, d, f, out) ==
    [filepath |-> filepath, formula |-> formula, dirs |-> d, files |-> f,
     after |-> out.files, res |-> out.res]

\* a call of validate_formula_syntax; validated keeps the last two calls
ValidateFormula(paths) ==
    /\ phase = "serving"
    /\ \E filepath \in paths, formula \in Formulas :
         LET out == validate_formula_syntax(EXCEL_FILES_PATH, dirs, files, filepath, formula)
             rec == ValidateRecord(filepath, formula, dirs, files, out)
         IN /\ files' = out.files
            /\ last' = Request("validate_formula_syntax", EmptyStr, filepath, out.res)
            /\ validated' = IF validated = << >> THEN <<rec>>
                            ELSE <<validated[Len(validated)], rec>>
    /\ UNCHANGED <<EXCEL_FILES_PATH, phase, mode, environ, dirs, log, exit, writers>>

ValidatePaths == {S_a_xlsx, S_r}

InitValidate == InitEnv({S_abs_data})

NextValidate ==
    \/ run_sse
    \/ CreateWorkbook({S_a_xlsx}, {"ok"})
    \/ ToolCall({"write_data_to_excel"}, {S_a_xlsx}, {"ok", "DataError"})
    \/ ApplyFormula({S_a_xlsx}, {"ok", "ValidationError"})
    \/ ValidateFormula(ValidatePaths)

SpecValidate == InitValidate /\ [][NextValidate]_vars

RaisedDomainError(res) ==
    /\ res.calls # << >>
    /\ res.calls[Len(res.calls)].outcome \in DomainErrors

\* the library operation that raised was invoked once
NoRetry(res) ==
    Cardinality({i \in DOMAIN res.calls :
                    res.calls[i].fn = res.calls[Len(res.calls)].fn}) = 1

\* the tools whose except clause names a domain exception
NamedBy(exc) ==
    CASE exc = "ValidationError" ->
            Tools \ {"read_data_from_excel", "create_workbook", "create_table",
                     "get_workbook_metadata", "get_data_validation_info"}
      [] exc = "WorkbookError" ->
            {"create_workbook", "create_worksheet", "get_workbook_metadata"}
      [] exc = "SheetError" ->
            {"copy_worksheet", "delete_worksheet", "rename_worksheet", "merge_cells",
             "unmerge_cells", "get_merged_cells", "copy_range", "delete_range"}
      [] exc = "DataError" -> {"write_data_to_excel", "create_table"}
      [] exc = "FormattingError" -> {"format_range"}
      [] exc = "CalculationError" -> {"apply_formula", "validate_formula_syntax"}
      [] exc = "PivotError" -> {"create_pivot_table"}
      [] exc = "ChartError" -> {"create_chart"}
      [] OTHER -> {}

\* C13, as stated: for every tool, when the library raises any of the eight
\* domain exceptions the tool returns exactly "Error: " followed by the
\* exception message, and the library operation is not invoked again.
C13_DomainError ==
    (last.op \in Tools /\ RaisedDomainError(last.res)) =>
        /\ ~last.res.raised
        /\ last.res.prefix = "Error: "
        /\ last.res.msg = Msg("boom", EmptyStr, "")
        /\ NoRetry(last.res)

\* C13, amended: a domain exception that the tool's own except clause names
\* is returned as "Error: " followed by the message; a domain exception the
\* tool does not name is logged and returned as "Error <operation>: "
\* followed by the message; in both cases the library operation is not
\* invoked again.
C13_DomainErrorAmended ==
    (last.op \in Tools /\ RaisedDomainError(last.res)) =>
        LET exc == last.res.calls[Len(last.res.calls)].outcome
        IN /\ ~last.res.raised
           /\ last.res.msg = Msg("boom", EmptyStr, "")
           /\ NoRetry(last.res)
           /\ IF last.op \in NamedBy(exc)
              THEN last.res.prefix = "Error: " /\ ~last.res.logged
              ELSE last.res.prefix = OpPrefix(last.op) /\ last.res.logged

C13_Witness ==
    /\ last.op = "create_table"
    /\ RaisedDomainError(last.res)
    /\ last.res.calls[1].outcome = "ValidationError"
    /\ last.res.prefix = "Error creating table: "
    /\ Len(last.res.calls) = 1

(* ---------------------------------------------------------------------- *)
(* SpecRace: two calls of write_data_to_excel in progress at once in HTTP  *)
(* mode.  The library operation opens the workbook, changes its copy and   *)
(* saves the copy; the tool takes no lock around it.                       *)
(* ---------------------------------------------------------------------- *)
Tasks == {1, 2}
StartCells == {"A1", "B2"}

\* load_workbook: the copy of the file a library operation works on
load_workbook(d, f, path) == f[Resolve(d, path)]

\* the copy after the data was written at start_cell
write_data(wb, start_cell) ==
    IF start_cell = "A1" THEN [wb EXCEPT !.cell = "d"] ELSE [wb EXCEPT !.b2 = "d"]

\* wb.save reading the file again and adding its change to what is there
save_workbook_Merging(d, f, path, w) ==
    [f EXCEPT ![Resolve(d, path)] = write_data(f[Resolve(d, path)], w.start_cell)]

\* wb.save: the file becomes the copy
save_workbook(d, f, path, w) ==
    [f EXCEPT ![Resolve(d, path)] = write_data(w.wb, w.start_cell)]

\* a call of write_data_to_excel: opened (inside the library, the workbook
\* loaded) or returned with res; replaced is the content its save overwrote
Writer(stage, filepath, path, start_cell, wb, res) ==
    [stage |-> stage, filepath |-> filepath, path |-> path, start_cell |-> start_cell,
     wb |-> wb, res |-> res, replaced |-> NewWorkbook]

\* task t enters write_data_to_excel: the path is resolved and the library
\* loads the workbook, whatever other calls are in progress
WriteBegin(t) ==
    /\ phase = "serving" /\ mode = "http"
    /\ IF t \in DOMAIN writers THEN writers[t].stage = "returned" ELSE TRUE
    /\ \E filepath \in {S_a_xlsx}, start_cell \in StartCells :
         LET r == get_excel_path(EXCEL_FILES_PATH, dirs, files, filepath)
             w == IF ~r.ok
                  THEN Writer("returned", filepath, EmptyStr, start_cell, NewWorkbook,
                              Handle("write_data_to_excel", r.exc, << >>))
                  ELSE IF ~isfile(dirs, files, r.path)
                  THEN Writer("returned", filepath, r.path, start_cell, NewWorkbook,
                              Handle("write_data_to_excel", LibExc("Exception"),
                                     <<Call(LibFn("write_data_to_excel"), r.path, "Exception")>>))
                  ELSE Writer("opened", filepath, r.path, start_cell,
                              load_workbook(dirs, files, r.path), NoMsg)
         IN /\ writers' = [u \in DOMAIN writers \cup {t} |-> IF u = t THEN w ELSE writers[u]]
            /\ last' = IF w.stage = "returned"
                       THEN Request("write_data_to_excel", EmptyStr, filepath, w.res)
                       ELSE last
    /\ UNCHANGED <<EXCEL_FILES_PATH, phase, mode, environ, dirs, files, log, exit, validated>>

\* the library operation of task t saves its copy and the tool returns the
\* library's message
WritePersist(t) ==
    /\ phase = "serving"
    /\ t \in DOMAIN writers
    /\ writers[t].stage = "opened"
    /\ LET w == writers[t]
           res == ToolResult(FALSE, "", Msg("done", EmptyStr, ""),
                             <<Call(LibFn("write_data_to_excel"), w.path, "ok")>>, FALSE)
       IN /\ files' = save_workbook(dirs, files, w.path, w)
          /\ writers' = [writers EXCEPT ![t].stage = "returned", ![t].res = res,
                                        ![t].replaced = load_workbook(dirs, files, w.path)]
          /\ last' = Request("write_data_to_excel", EmptyStr, w.filepath, res)
    /\ UNCHANGED <<EXCEL_FILES_PATH, phase, mode, environ, dirs, log, exit, validated>>

InitRace == InitEnv({S_abs_data})

NextRace ==
    \/ run_streamable_http
    \/ CreateWorkbook({S_a_xlsx}, {"ok"})
    \/ \E t \in Tasks : WriteBegin(t)
    \/ \E t \in Tasks : WritePersist(t)

SpecRace == InitRace /\ [][NextRace]_vars

\* a call returned the library's success message
ReturnedSuccess(w) == w.stage = "returned" /\ w.res.prefix = "" /\ w.res.calls # << >>

\* C14: no lock orders the calls: whenever a call of write_data_to_excel
\* saves, the file becomes the workbook that call loaded with that call's
\* change, whatever another call saved in between, and the call returns
\* success (last write wins); the witness is the lost update: both calls
\* returned success, the save of one overwrote the change of the other, and
\* the file holds the change of one of them only.
C14_LastWriteWins ==
    [][\A t \in Tasks :
         (/\ t \in DOMAIN writers
          /\ writers[t].stage = "opened"
          /\ writers'[t].stage = "returned") =>
             /\ ReturnedSuccess(writers'[t])
             /\ files'[Resolve(dirs, writers[t].path)]
                    = write_data(writers[t].wb, writers[t].start_cell)]_vars

C14_Witness ==
    /\ DOMAIN writers = Tasks
    /\ ReturnedSuccess(writers[1])
    /\ ReturnedSuccess(writers[2])
    /\ writers[1].path = writers[2].path
    /\ writers[1].start_cell = "A1"
    /\ writers[2].start_cell = "B2"
    /\ writers[1].wb = NewWorkbook
    /\ writers[2].wb = NewWorkbook
    /\ writers[1].replaced = write_data(NewWorkbook, "B2")
    /\ files[Resolve(dirs, writers[1].path)] = write_data(NewWorkbook, "A1")

(* ---------------------------------------------------------------------- *)
(* SpecRun: the run functions from their call to their end                 *)
(* ---------------------------------------------------------------------- *)
\* what ends the transport's run call: it returns, or raises
StopCauses == {"", "KeyboardInterrupt", "Exception"}

\* the except and finally clauses of a run function: the records they
\* write and how the function ends
ServerExit(cause) ==
    IF cause = ""
    THEN [log |-> <<"Server shutdown complete">>, exit |-> Exit(cause, FALSE)]
    ELSE IF cause = "KeyboardInterrupt"
    THEN [log |-> <<"Server stopped by user", "Server shutdown complete">>,
          exit |-> Exit(cause, FALSE)]
    ELSE [log |-> <<"Server failed: boom", "Server shutdown complete">>,
          exit |-> Exit(cause, TRUE)]

\* the transport's run call ends
ServerStops ==
    /\ phase = "serving"
    /\ \E cause \in StopCauses :
         /\ log' = log \o ServerExit(cause).log
         /\ exit' = ServerExit(cause).exit
    /\ phase' = "stopped"
    /\ UNCHANGED <<EXCEL_FILES_PATH, mode, environ, dirs, files, last, writers, validated>>

InitRun == InitEnv(EnvValues)

NextRun ==
    \/ run_stdio
    \/ run_sse
    \/ run_streamable_http
    \/ Upload
    \/ ListFiles
    \/ ServerStops

SpecRun == InitRun /\ [][NextRun]_vars

\* the run function has ended
Terminated(p) == p \in {"stopped", "failed"}

\* C15: a run mode, once chosen, never changes and a run function that
\* ended does not run again; a run function ended by an exception other than
\* a keyboard interrupt logged the failure and raised the exception to its
\* caller; and whenever a run function ends, the last record of the log is
\* "Server shutdown complete".
C15_RunModes ==
    [][/\ (mode # "none" => mode' = mode)
       /\ (Terminated(phase) => (phase' = phase /\ log' = log /\ exit' = exit))
       /\ ((~Terminated(phase) /\ Terminated(phase')) =>
              /\ log' # << >>
              /\ log'[Len(log')] = "Server shutdown complete"
              /\ (exit'.cause \notin {"", "KeyboardInterrupt"} =>
                     /\ exit'.raised
                     /\ Len(log') >= 2
                     /\ log'[Len(log') - 1] = "Server failed: boom")
              /\ (exit'.cause \in {"", "KeyboardInterrupt"} => ~exit'.raised)
              /\ SubSeq(log', 1, Len(log)) = log)]_vars

(* ---------------------------------------------------------------------- *)
(* SpecIsolation: uploads under filenames that hold separators, ".."      *)
(* segments or an absolute path                                            *)
(* ---------------------------------------------------------------------- *)
IsolationNames == {S_a_xlsx, S_up_a_xlsx, S_up_u2_a_xlsx, S_abs_x_xlsx}

InitIsolation == InitEnv({S_abs_data})

NextIsolation ==
    \/ run_streamable_http
    \/ UploadAs(IsolationNames)
    \/ ListFiles
    \/ Delete

SpecIsolation == InitIsolation /\ [][NextIsolation]_vars

\* the file nodes written or removed between two file maps
Touched(f, f2) ==
    {n \in DOMAIN f \cup DOMAIN f2 :
        \/ n \notin DOMAIN f
        \/ n \notin DOMAIN f2
        \/ f[n] # f2[n]}

\* C16: an upload or delete issued for user A, whatever the filename, leaves
\* the answer of GET /files/B unchanged for every other user B and writes or
\* removes only files inside filesRoot/A.
C16_UserIsolation ==
    [][(phase = "serving" /\ last'.op \in {"upload", "delete"}) =>
           /\ \A B \in Users \ {last'.user} :
                list_user_files(EXCEL_FILES_PATH, dirs', files', B)
                    = list_user_files(EXCEL_FILES_PATH, dirs, files, B)
           /\ \A n \in Touched(files, files') :
                Inside(n, Resolve(dirs', join(EXCEL_FILES_PATH, last'.user)))]_vars

====
